---- MODULE Spec2Model ----
(***************************************************************************)
(* State-machine model of the file compiler bot in src/bot.py: the         *)
(* per-user session map (FileCompilationBot.user_sessions), the files      *)
(* under Config.TEMP_DIR, and the handlers registered in run_polling       *)
(* (/start, handle_file, handle_callback and the handlers it dispatches    *)
(* to).  Each action is one handler run to completion.                     *)
(*                                                                         *)
(* File names are kept split as os.path.splitext splits them               *)
(* ([stem, ext]); a path is [dir, sub, name]: the user's temp_dir, the     *)
(* sub-directory below it ("" for temp_dir itself) and the file name.      *)
(* Uploaded names are drawn from names made of [A-Za-z0-9_.-] only, which  *)
(* Utils.safe_filename returns as they are.                                *)
(***************************************************************************)
EXTENDS Integers, Sequences, FiniteSets, TLC

VARIABLES
    user_sessions,  \* FileCompilationBot.user_sessions: user_id -> session dict
    disk,           \* the regular files under Config.TEMP_DIR: path -> content
    prompt,         \* per user, the confirmation keyboard the menu message shows
    last,           \* the event handled last and the outcome it reported
    running         \* the updates whose handler has begun and not yet returned

vars == <<user_sessions, disk, prompt, last, running>>

----------------------------------------------------------------------------
(* Config (src/bot.py 11-30)                                               *)

MAX_FILE_SIZE == 50 * 1024 * 1024

\* Config.MAX_FILES_PER_USER is 100 in the source; the model scales it down.
MAX_FILES_PER_USER == 3

TEMP_DIR == "temp_files"

SUPPORTED_ARCHIVE_FORMATS == {"zip", "7z", "tar", "tar.gz"}

----------------------------------------------------------------------------
(* Bounds and input sets                                                   *)

Users == {1}

\* the users of the specification in which two users share the bot
AllUsers == {1, 2}

\* None of Python
NONE == "None"

\* files kept in a user's temp_dir at once: /start forgets the records and keeps
\* the files, so without a bound the disk grows for ever
MaxDisk == 2

Name(stem, ext) == [stem |-> stem, ext |-> ext]

\* content of a regular file: its byte size, and what a codec finds in it
Data(size) == [size |-> size, kind |-> "data", members |-> <<>>]

Archive(size, members) == [size |-> size, kind |-> "archive", members |-> members]

Member(name, size) == [name |-> name, size |-> size]

\* the archive a user uploads as a.zip: a small member and one above the limit
ValidZip ==
    Archive(1, << Member(Name("m", ".txt"), 1),
                  Member(Name("big", ".bin"), MAX_FILE_SIZE + 1) >>)

\* the archive a user uploads as a.rar, which patool unpacks like any other
ValidRar == Archive(1, << Member(Name("r", ".txt"), 1) >>)

\* documents a user sends: file_name, the bytes behind it, and whether the
\* transport states document.file_size.  The third is no zip archive, whatever
\* its name says.
Documents ==
    { [file_name |-> Name("a", ".txt"), content |-> Data(MAX_FILE_SIZE + 1), size_known |-> TRUE],
      [file_name |-> Name("a", ".zip"), content |-> ValidZip, size_known |-> TRUE],
      [file_name |-> Name("compiled_files_1_1files", ".zip"),
       content |-> Data(MAX_FILE_SIZE), size_known |-> TRUE],
      [file_name |-> Name("a", ".rar"), content |-> ValidRar, size_known |-> TRUE] }

\* messages received by handle_file ("text": no document/photo/video/audio)
Messages ==
    { [kind |-> "document", file_name |-> d.file_name, content |-> d.content,
       size_known |-> d.size_known] : d \in Documents }
    \cup { [kind |-> "text", file_name |-> Name("", ""), content |-> Data(0),
            size_known |-> FALSE] }

\* format strings carried by create_<format> / confirm_<format> callback data
FormatInputs == {"zip"}

\* format strings of the confirm_<format> data a client sends back: the ones the
\* menus offer and one that no menu offers
ConfirmFormatInputs == FormatInputs \cup {"rar"}

\* an event handled and the outcome reported for it; count is the number that a
\* confirmed extract-all reports, 0 for every other event
Event(u, e, r) == [user |-> u, event |-> e, result |-> r, count |-> 0]

ExtractionEvent(u, r, n) == [Event(u, "confirm_extraction", r) EXCEPT !.count = n]

----------------------------------------------------------------------------
(* The file system                                                         *)

Join(dir, sub, name) == [dir |-> dir, sub |-> sub, name |-> name]

\* the None that create_archive returns in place of a path
NoPath == Join("", "", Name("", ""))

Exists(d, p) == p \in DOMAIN d

DiskWrite(d, p, c) == [q \in DOMAIN d \cup {p} |-> IF q = p THEN c ELSE d[q]]

DiskRemove(d, P) == [q \in DOMAIN d \ P |-> d[q]]

\* shutil.rmtree(temp_dir): every file in temp_dir and below it
rmtree(d, temp_dir) == DiskRemove(d, {p \in DOMAIN d : p.dir = temp_dir})

----------------------------------------------------------------------------
(* Session store                                                           *)

\* one directory for every user
UserTempDir_Shared(u) == TEMP_DIR \o "/user"

UserTempDir(u) == TEMP_DIR \o "/user_" \o ToString(u)

NewSession(u) ==
    [files |-> <<>>, temp_dir |-> UserTempDir(u),
     waiting_confirmation |-> NONE, extracted_files |-> <<>>]

initialize_user_session(sessions, u) ==
    [x \in DOMAIN sessions \cup {u} |-> IF x = u THEN NewSession(u) ELSE sessions[x]]

\* a new session at every event, for a user who has one as well
EnsureSession_AlwaysInit(sessions, u) == initialize_user_session(sessions, u)

\* "Initialize session if not exists" of handle_file and handle_callback
EnsureSession(sessions, u) ==
    IF u \in DOMAIN sessions THEN sessions ELSE initialize_user_session(sessions, u)

SetSession(sessions, u, s) == [sessions EXCEPT ![u] = s]

----------------------------------------------------------------------------

Init ==
    /\ user_sessions = [x \in {} |-> NewSession(x)]
    /\ disk = [p \in {} |-> Data(0)]
    /\ prompt = [u \in AllUsers |-> NONE]
    /\ last = Event(0, "init", "ok")
    /\ running = <<>>

start(u) ==
    /\ user_sessions' = initialize_user_session(user_sessions, u)
    /\ last' = Event(u, "start", "ok")
    /\ UNCHANGED <<disk, prompt>>

\* document.file_name / photo / video / audio of handle_file (761-776): the
\* file name and the declared size; n is len(user_session['files'])
DefaultName(kind, n) ==
    CASE kind = "photo" -> Name("photo_" \o ToString(n + 1), ".jpg")
      [] kind = "video" -> Name("video_" \o ToString(n + 1), ".mp4")
      [] kind = "audio" -> Name("audio_" \o ToString(n + 1), ".mp3")
      [] OTHER          -> Name("document", "")

MessageName(msg, n) ==
    IF msg.kind = "photo" \/ msg.file_name = Name("", "")
    THEN DefaultName(msg.kind, n)
    ELSE msg.file_name

\* "file_size or 0": a size the transport leaves out counts as 0
DeclaredSize(msg) == IF msg.size_known THEN msg.content.size ELSE 0

\* the loop numbering the name it has just tried in place of the original name
RECURSIVE UniqueName_FromCurrent(_, _, _, _, _)
UniqueName_FromCurrent(d, temp_dir, original_name, file_name, counter) ==
    IF Exists(d, Join(temp_dir, "", file_name))
    THEN UniqueName_FromCurrent(d, temp_dir, original_name,
                                Name(file_name.stem \o "_" \o ToString(counter), file_name.ext),
                                counter + 1)
    ELSE file_name

\* the "Ensure unique filename" loop (796-803)
RECURSIVE UniqueName(_, _, _, _, _)
UniqueName(d, temp_dir, original_name, file_name, counter) ==
    IF Exists(d, Join(temp_dir, "", file_name))
    THEN UniqueName(d, temp_dir, original_name,
                    Name(original_name.stem \o "_" \o ToString(counter), original_name.ext),
                    counter + 1)
    ELSE file_name

FileRecord(name, path, size) == [name |-> name, path |-> path, size |-> size]

UploadsOnDisk(d, temp_dir) == {p \in DOMAIN d : p.dir = temp_dir /\ p.sub = ""}

\* the cap compared with > in place of >=
FileLimitReached_OffByOne(us) == Len(us.files) > MAX_FILES_PER_USER

FileLimitReached(us) == Len(us.files) >= MAX_FILES_PER_USER

\* the size compared with >= in place of >
FileTooLarge_Inclusive(file_size) == file_size >= MAX_FILE_SIZE

FileTooLarge(file_size) == file_size > MAX_FILE_SIZE

\* the record appended before the download, and left there when it fails
handle_file_RecordsBeforeDownload(u, msg, download_ok) ==
    LET sessions == EnsureSession(user_sessions, u)
        user_session == sessions[u]
        n == Len(user_session.files)
    IN  /\ prompt' = prompt
        /\ IF FileLimitReached(user_session)
           THEN /\ user_sessions' = sessions
                /\ disk' = disk
                /\ last' = Event(u, "file", "limit_exceeded")
           ELSE IF msg.kind \notin {"document", "photo", "video", "audio"}
           THEN /\ user_sessions' = sessions
                /\ disk' = disk
                /\ last' = Event(u, "file", "unsupported")
           ELSE IF FileTooLarge(DeclaredSize(msg))
           THEN /\ user_sessions' = sessions
                /\ disk' = disk
                /\ last' = Event(u, "file", "size_exceeded")
           ELSE LET temp_dir == user_session.temp_dir
                    file_name == UniqueName(disk, temp_dir, MessageName(msg, n),
                                            MessageName(msg, n), 1)
                    file_path == Join(temp_dir, "", file_name)
                IN  /\ user_sessions' =
                           SetSession(sessions, u,
                               [user_session EXCEPT !.files =
                                   Append(@, FileRecord(file_name, file_path,
                                                        msg.content.size))])
                    /\ IF download_ok
                       THEN /\ disk' = DiskWrite(disk, file_path, msg.content)
                            /\ last' = Event(u, "file", "ok")
                       ELSE /\ disk' = disk
                            /\ last' = Event(u, "file", "io_error")

handle_file(u, msg, download_ok) ==
    LET sessions == EnsureSession(user_sessions, u)
        user_session == sessions[u]
        n == Len(user_session.files)
    IN  /\ prompt' = prompt
        /\ IF FileLimitReached(user_session)
           THEN /\ user_sessions' = sessions
                /\ disk' = disk
                /\ last' = Event(u, "file", "limit_exceeded")
           ELSE IF msg.kind \notin {"document", "photo", "video", "audio"}
           THEN /\ user_sessions' = sessions
                /\ disk' = disk
                /\ last' = Event(u, "file", "unsupported")
           ELSE IF FileTooLarge(DeclaredSize(msg))
           THEN /\ user_sessions' = sessions
                /\ disk' = disk
                /\ last' = Event(u, "file", "size_exceeded")
           ELSE LET temp_dir == user_session.temp_dir
                    file_name == UniqueName(disk, temp_dir, MessageName(msg, n),
                                            MessageName(msg, n), 1)
                    file_path == Join(temp_dir, "", file_name)
                IN  IF download_ok
                    THEN /\ disk' = DiskWrite(disk, file_path, msg.content)
                         /\ user_sessions' =
                                SetSession(sessions, u,
                                    [user_session EXCEPT !.files =
                                        Append(@, FileRecord(file_name, file_path,
                                                             msg.content.size))])
                         /\ last' = Event(u, "file", "ok")
                    ELSE /\ user_sessions' = sessions
                         /\ disk' = disk
                         /\ last' = Event(u, "file", "io_error")

----------------------------------------------------------------------------
(* ArchiveManager (src/bot.py 75-227)                                      *)

\* str.lower() on the extensions the inputs use
LowerExt(ext) ==
    CASE ext = ".ZIP" -> ".zip"
      [] ext = ".TXT" -> ".txt"
      [] OTHER        -> ext

EXTRACTABLE_EXTENSIONS == {".apk", ".zip", ".7z", ".tar", ".gz", ".tar.gz", ".rar"}

\* os.path.splitext(filename.lower())[1] in extractable_extensions
can_extract_archive(filename) == LowerExt(filename.ext) \in EXTRACTABLE_EXTENSIONS

ExtractableFiles(files) ==
    LET Test(f) == can_extract_archive(f.name) IN SelectSeq(files, Test)

\* the files written into an archive one after the other, until one cannot be
\* read; tarfile.add skips the archive's own path, the other codecs read it
RECURSIVE WriteMembers(_, _, _, _, _)
WriteMembers(d, files, i, output_path, format_type) ==
    IF i > Len(files) THEN [ok |-> TRUE, members |-> <<>>]
    ELSE IF ~Exists(d, files[i].path) THEN [ok |-> FALSE, members |-> <<>>]
    ELSE LET rest == WriteMembers(d, files, i + 1, output_path, format_type)
             skipped == format_type \in {"tar", "tar.gz"} /\ files[i].path = output_path
         IN  [ok |-> rest.ok,
              members |-> (IF skipped THEN <<>>
                           ELSE <<Member(files[i].path.name, d[files[i].path].size)>>)
                          \o rest.members]

RECURSIVE SumSizes(_)
SumSizes(members) ==
    IF members = <<>> THEN 0 ELSE Head(members).size + SumSizes(Tail(members))

\* compile_archive answering True although the codec raised
compile_archive_ReportsPartial(d, files, output_path, format_type, codec_ok) ==
    IF format_type \notin SUPPORTED_ARCHIVE_FORMATS
    THEN [success |-> FALSE, disk |-> d]
    ELSE LET opened == DiskWrite(d, output_path, Archive(0, <<>>))
             w == WriteMembers(opened, files, 1, output_path, format_type)
         IN  [success |-> TRUE,
              disk |-> IF codec_ok /\ w.ok
                       THEN DiskWrite(opened, output_path,
                                      Archive(SumSizes(w.members), w.members))
                       ELSE opened]

\* compile_archive whose dispatch falls through to the zip codec
compile_archive_DefaultsToZip(d, files, output_path, format_type, codec_ok) ==
    LET opened == DiskWrite(d, output_path, Archive(0, <<>>))
        w == WriteMembers(opened, files, 1, output_path, format_type)
    IN  IF codec_ok /\ w.ok
        THEN [success |-> TRUE,
              disk |-> DiskWrite(opened, output_path,
                                 Archive(SumSizes(w.members), w.members))]
        ELSE [success |-> FALSE, disk |-> opened]

\* compile_archive and _create_zip/_create_7z/_create_tar/_create_tar_gz: opening
\* output_path for writing creates (or truncates) it, every file is stored under
\* the base name of its path, a codec error leaves what was written and gives False
compile_archive(d, files, output_path, format_type, codec_ok) ==
    IF format_type \notin SUPPORTED_ARCHIVE_FORMATS
    THEN [success |-> FALSE, disk |-> d]
    ELSE LET opened == DiskWrite(d, output_path, Archive(0, <<>>))
             w == WriteMembers(opened, files, 1, output_path, format_type)
         IN  IF codec_ok /\ w.ok
             THEN [success |-> TRUE,
                   disk |-> DiskWrite(opened, output_path,
                                      Archive(SumSizes(w.members), w.members))]
             ELSE [success |-> FALSE, disk |-> opened]

\* every order of the elements of S (os.walk lists a directory in no stated order)
Orders(S) ==
    {s \in [1..Cardinality(S) -> S] : \A i, j \in 1..Cardinality(S) : i # j => s[i] # s[j]}

RECURSIVE WriteExtracted(_, _, _, _, _)
WriteExtracted(d, dir, sub, members, i) ==
    IF i > Len(members) THEN d
    ELSE WriteExtracted(DiskWrite(d, Join(dir, sub, members[i].name), Data(members[i].size)),
                        dir, sub, members, i + 1)

\* extract_archive with _extract_7z / _extract_generic: the members are written
\* below extract_dir, then every regular file found there is returned; a file
\* that is missing or no archive gives the empty list
extract_archive(d, archive_path, dir, sub) ==
    IF ~Exists(d, archive_path) \/ d[archive_path].kind # "archive"
    THEN {[disk |-> d, extracted_files |-> <<>>]}
    ELSE LET after == WriteExtracted(d, dir, sub, d[archive_path].members, 1)
             found == {p \in DOMAIN after : p.dir = dir /\ p.sub = sub}
         IN  {[disk |-> after,
               extracted_files |->
                   [i \in 1..Cardinality(found) |->
                        FileRecord(o[i].name, o[i], after[o[i]].size)]] : o \in Orders(found)}

----------------------------------------------------------------------------
(* Button presses: handle_callback (340-377) makes sure of the session and *)
(* dispatches on the callback data; every handler edits the menu message,  *)
(* which then shows the keyboard the handler passes.                       *)

Shows(u, keyboard) == prompt' = [prompt EXCEPT ![u] = keyboard]

handle_create_archive(u, format_type) ==
    LET sessions == EnsureSession(user_sessions, u)
        files == sessions[u].files
    IN  /\ disk' = disk
        /\ IF files = <<>>
           THEN /\ user_sessions' = sessions
                /\ Shows(u, NONE)
                /\ last' = Event(u, "create", "no_files")
           ELSE /\ user_sessions' =
                       SetSession(sessions, u,
                           [sessions[u] EXCEPT !.waiting_confirmation =
                                "create_" \o format_type])
                /\ Shows(u, "confirm_" \o format_type)
                /\ last' = Event(u, "create", "confirm_prompt")

handle_extract_all(u) ==
    LET sessions == EnsureSession(user_sessions, u)
        archive_files == ExtractableFiles(sessions[u].files)
    IN  /\ disk' = disk
        /\ user_sessions' = sessions
        /\ IF archive_files = <<>>
           THEN /\ Shows(u, NONE)
                /\ last' = Event(u, "extract_all", "no_archives")
           ELSE /\ Shows(u, "confirm_extract_all")
                /\ last' = Event(u, "extract_all", "confirm_prompt")

\* f"compiled_files_{user_id}_{len(files)}files.{format_type}", split as
\* os.path.splitext splits it
ArchiveName(u, n, format_type) ==
    LET base == "compiled_files_" \o ToString(u) \o "_" \o ToString(n) \o "files"
    IN  IF format_type = "tar.gz" THEN Name(base \o ".tar", ".gz")
        ELSE Name(base, "." \o format_type)

\* create_archive without its "if not files" guard
create_archive_NoEmptyGuard(sessions, d, u, format_type, codec_ok) ==
    LET files == sessions[u].files
        archive_path == Join(sessions[u].temp_dir, "", ArchiveName(u, Len(files), format_type))
        c == compile_archive(d, files, archive_path, format_type, codec_ok)
    IN  [archive_path |-> IF c.success THEN archive_path ELSE NoPath, disk |-> c.disk]

\* create_archive (589-602): the archive path, or None
create_archive(sessions, d, u, format_type, codec_ok) ==
    LET files == sessions[u].files
        archive_path == Join(sessions[u].temp_dir, "", ArchiveName(u, Len(files), format_type))
        c == compile_archive(d, files, archive_path, format_type, codec_ok)
    IN  IF files = <<>>
        THEN [archive_path |-> NoPath, disk |-> d]
        ELSE [archive_path |-> IF c.success THEN archive_path ELSE NoPath, disk |-> c.disk]

handle_confirm_creation(u, format_type, codec_ok, delivered) ==
    LET sessions == EnsureSession(user_sessions, u)
        r == create_archive(sessions, disk, u, format_type, codec_ok)
    IN  /\ Shows(u, NONE)
        /\ IF r.archive_path # NoPath
           THEN IF delivered
                THEN /\ disk' = DiskRemove(r.disk, {r.archive_path})
                     /\ user_sessions' =
                            SetSession(sessions, u,
                                [sessions[u] EXCEPT !.waiting_confirmation = NONE])
                     /\ last' = Event(u, "confirm_creation", "delivered")
                ELSE /\ disk' = r.disk
                     /\ user_sessions' = sessions
                     /\ last' = Event(u, "confirm_creation", "error")
           ELSE /\ disk' = r.disk
                /\ user_sessions' = sessions
                /\ last' = Event(u, "confirm_creation", "failed")

\* the merge loop without its "Check file limit" break
MergeExtracted_NoCap(files, extracted_files, i, total_extracted) ==
    [files |-> files \o extracted_files,
     total_extracted |-> total_extracted + Len(extracted_files)]

\* the "Add extracted files to user's file list" loop (622-633): every append
\* adds one to total_extracted
RECURSIVE MergeExtracted(_, _, _, _)
MergeExtracted(files, extracted_files, i, total_extracted) ==
    IF i > Len(extracted_files) \/ Len(files) >= MAX_FILES_PER_USER
    THEN [files |-> files, total_extracted |-> total_extracted]
    ELSE MergeExtracted(Append(files, extracted_files[i]), extracted_files, i + 1,
                        total_extracted + 1)

\* the loop leaving at the first archive that gives no file
RECURSIVE ExtractLoop_StopsAtFailure(_, _, _, _, _, _)
ExtractLoop_StopsAtFailure(extractable_files, i, temp_dir, d, files, total_extracted) ==
    IF i > Len(extractable_files)
    THEN {[disk |-> d, files |-> files, total_extracted |-> total_extracted]}
    ELSE UNION { IF o.extracted_files = <<>>
                 THEN {[disk |-> o.disk, files |-> files, total_extracted |-> total_extracted]}
                 ELSE LET m == MergeExtracted(files, o.extracted_files, 1, total_extracted)
                      IN  ExtractLoop_StopsAtFailure(extractable_files, i + 1, temp_dir,
                                                     o.disk, m.files, m.total_extracted) :
                 o \in extract_archive(d, extractable_files[i].path, temp_dir,
                                       "extracted_" \o extractable_files[i].name.stem) }

\* the loop counting the files an archive gave in place of the files appended
RECURSIVE ExtractLoop_CountsFound(_, _, _, _, _, _)
ExtractLoop_CountsFound(extractable_files, i, temp_dir, d, files, total_extracted) ==
    IF i > Len(extractable_files)
    THEN {[disk |-> d, files |-> files, total_extracted |-> total_extracted]}
    ELSE UNION { LET m == MergeExtracted(files, o.extracted_files, 1, total_extracted)
                 IN  ExtractLoop_CountsFound(extractable_files, i + 1, temp_dir, o.disk,
                                             m.files,
                                             total_extracted + Len(o.extracted_files)) :
                 o \in extract_archive(d, extractable_files[i].path, temp_dir,
                                       "extracted_" \o extractable_files[i].name.stem) }

\* os.path.join(temp_dir, f"extracted_{os.path.splitext(archive_file['name'])[0]}")
ExtractDir(archive_file) == "extracted_" \o archive_file.name.stem

\* the loop of extract_all_archives (612-637): every outcome the walk orders allow
RECURSIVE ExtractLoop(_, _, _, _, _, _)
ExtractLoop(extractable_files, i, temp_dir, d, files, total_extracted) ==
    IF i > Len(extractable_files)
    THEN {[disk |-> d, files |-> files, total_extracted |-> total_extracted]}
    ELSE UNION { LET m == MergeExtracted(files, o.extracted_files, 1, total_extracted)
                 IN  ExtractLoop(extractable_files, i + 1, temp_dir, o.disk,
                                 m.files, m.total_extracted) :
                 o \in extract_archive(d, extractable_files[i].path, temp_dir,
                                       ExtractDir(extractable_files[i])) }

\* extract_all_archives (604-639)
extract_all_archives(sessions, d, u) ==
    ExtractLoop(ExtractableFiles(sessions[u].files), 1, sessions[u].temp_dir, d,
                sessions[u].files, 0)

\* an extraction that takes the archives out of the file list
handle_confirm_extraction_ConsumesArchives(u) ==
    LET sessions == EnsureSession(user_sessions, u)
        NotArchive(f) == ~can_extract_archive(f.name)
    IN  \E r \in extract_all_archives(sessions, disk, u) :
            LET extracted_count == r.total_extracted
            IN  /\ disk' = r.disk
                /\ user_sessions' =
                       SetSession(sessions, u,
                           [sessions[u] EXCEPT !.files = SelectSeq(r.files, NotArchive)])
                /\ Shows(u, NONE)
                /\ last' = ExtractionEvent(u, IF extracted_count > 0 THEN "extracted"
                                              ELSE "nothing_extracted",
                                           extracted_count)

handle_confirm_extraction(u) ==
    LET sessions == EnsureSession(user_sessions, u)
    IN  \E r \in extract_all_archives(sessions, disk, u) :
            LET extracted_count == r.total_extracted
            IN  /\ disk' = r.disk
                /\ user_sessions' = SetSession(sessions, u, [sessions[u] EXCEPT !.files = r.files])
                /\ Shows(u, NONE)
                /\ last' = ExtractionEvent(u, IF extracted_count > 0 THEN "extracted"
                                              ELSE "nothing_extracted",
                                           extracted_count)

\* a cancel that answers the user and leaves waiting_confirmation as it is
handle_cancel_operation_KeepsPending(u, data) ==
    /\ user_sessions' = EnsureSession(user_sessions, u)
    /\ disk' = disk
    /\ Shows(u, NONE)
    /\ last' = Event(u, "cancel", "cancelled")

handle_cancel_operation(u, data) ==
    LET sessions == EnsureSession(user_sessions, u)
    IN  /\ user_sessions' =
               SetSession(sessions, u, [sessions[u] EXCEPT !.waiting_confirmation = NONE])
        /\ disk' = disk
        /\ Shows(u, NONE)
        /\ last' = Event(u, "cancel", "cancelled")

\* a clear that starts a new session and leaves the files where they are
handle_clear_files_KeepsFiles(u) ==
    LET sessions == EnsureSession(user_sessions, u)
    IN  /\ disk' = disk
        /\ user_sessions' = initialize_user_session(sessions, u)
        /\ Shows(u, NONE)
        /\ last' = Event(u, "clear_files", "cleared")

handle_clear_files(u) ==
    LET sessions == EnsureSession(user_sessions, u)
    IN  /\ disk' = rmtree(disk, sessions[u].temp_dir)
        /\ user_sessions' = initialize_user_session(sessions, u)
        /\ Shows(u, NONE)
        /\ last' = Event(u, "clear_files", "cleared")

\* the handlers that only show something: handle_show_archive_options,
\* handle_show_extract_options, handle_list_extractable, handle_list_files,
\* handle_show_help, handle_back_to_main
QueryData ==
    {"show_archive_options", "show_extract_options", "list_extractable",
     "list_files", "show_help", "back_to_main"}

\* a button that shows something and takes the staged operation back
handle_query_DropsPending(u, data) ==
    LET sessions == EnsureSession(user_sessions, u)
    IN  /\ user_sessions' =
               SetSession(sessions, u, [sessions[u] EXCEPT !.waiting_confirmation = NONE])
        /\ disk' = disk
        /\ Shows(u, NONE)
        /\ last' = Event(u, "query", "shown")

handle_query(u, data) ==
    /\ user_sessions' = EnsureSession(user_sessions, u)
    /\ disk' = disk
    /\ Shows(u, NONE)
    /\ last' = Event(u, "query", "shown")

\* the model's bound on the files that a user's temp_dir holds after a step
DiskBound(u, max) == Cardinality(UploadsOnDisk(disk', UserTempDir(u))) <= max

\* a handler that runs from its first line to its return in one step
Whole == UNCHANGED running

Next ==
    \E u \in Users :
        \/ start(u) /\ Whole
        \/ \E msg \in Messages, download_ok \in BOOLEAN :
                handle_file(u, msg, download_ok) /\ DiskBound(u, MaxDisk) /\ Whole
        \/ \E f \in FormatInputs : handle_create_archive(u, f) /\ Whole
        \/ handle_extract_all(u) /\ Whole
        \/ \E f \in ConfirmFormatInputs, codec_ok \in BOOLEAN, delivered \in BOOLEAN :
                /\ handle_confirm_creation(u, f, codec_ok, delivered)
                /\ DiskBound(u, MaxDisk)
                /\ Whole
        \/ handle_confirm_extraction(u) /\ Whole
        \/ \E data \in {"cancel_creation", "cancel_extraction"} :
                handle_cancel_operation(u, data) /\ Whole
        \/ handle_clear_files(u) /\ Whole
        \/ \E data \in QueryData : handle_query(u, data) /\ Whole

Spec == Init /\ [][Next]_vars

----------------------------------------------------------------------------
(* Receiving files only: a user who sends the same names again and again   *)

\* files kept in a user's temp_dir at once when files are all a user sends
MaxNames == 3

\* two documents sent under the name a.txt, with different bytes
NameMessages ==
    { [kind |-> "document", file_name |-> Name("a", ".txt"), content |-> Data(size),
       size_known |-> TRUE] : size \in {1, 2} }
    \cup { m \in Messages : m.kind = "document" /\ m.file_name = Name("a", ".zip") }

NextNames ==
    \E u \in Users :
        \/ start(u) /\ Whole
        \/ \E msg \in NameMessages, download_ok \in BOOLEAN :
                handle_file(u, msg, download_ok) /\ DiskBound(u, MaxNames) /\ Whole
        \/ handle_clear_files(u) /\ Whole

SpecNames == Init /\ [][NextNames]_vars

----------------------------------------------------------------------------
(* Two users: what one user's events do to the other user                  *)

\* files kept in the two users' temp_dirs together when two users share the bot
MaxShared == 2

\* the model's bound on the files that all temp_dirs hold after a step
SharedBound ==
    Cardinality(UNION {UploadsOnDisk(disk', UserTempDir(u)) : u \in AllUsers}) <= MaxShared

\* what either user sends: an archive, under the same name for both users
SharedMessages == {m \in Messages : m.kind = "document" /\ m.file_name = Name("a", ".zip")}

NextShared ==
    \E u \in AllUsers :
        \/ start(u) /\ Whole
        \/ \E msg \in SharedMessages, download_ok \in BOOLEAN :
                handle_file(u, msg, download_ok) /\ SharedBound /\ Whole
        \/ handle_create_archive(u, "zip") /\ Whole
        \/ \E delivered \in BOOLEAN :
                handle_confirm_creation(u, "zip", TRUE, delivered) /\ SharedBound /\ Whole
        \/ handle_confirm_extraction(u) /\ Whole
        \/ handle_clear_files(u) /\ Whole

SpecShared == Init /\ [][NextShared]_vars

----------------------------------------------------------------------------
(* A process that starts on what an earlier process left under TEMP_DIR    *)

\* files left by an earlier process, all of them older than the cleanup age:
\* one directly in TEMP_DIR and one in a user's temp_dir
Leftovers ==
    { Join(TEMP_DIR, "", Name("old", ".zip")),
      Join(UserTempDir(1), "", Name("old", ".txt")) }

\* os.listdir(directory) and os.path.isfile: the regular files directly in
\* directory, of which those older than max_age_hours are removed; old is the
\* set of the paths that are older
cleanup_old_files(d, directory, old) ==
    DiskRemove(d, {p \in DOMAIN d : p.dir = directory /\ p.sub = "" /\ p \in old})

setup_directories(d, old) == cleanup_old_files(d, TEMP_DIR, old)

InitLive ==
    /\ user_sessions = [x \in {} |-> NewSession(x)]
    /\ disk \in {setup_directories([p \in left |-> Data(1)], left) : left \in SUBSET Leftovers}
    /\ prompt = [u \in AllUsers |-> NONE]
    /\ last = Event(0, "init", "ok")
    /\ running = <<>>

\* the process lives on and goes on handling what its users send; no step of
\* it is a sweep
SpecLive == InitLive /\ [][NextNames]_vars /\ WF_vars(NextNames)

----------------------------------------------------------------------------
(* The dispatcher: updates whose handlers take time                        *)

\* updates taken from the queue and not yet finished, at most
MaxRunning == 2

\* the callback data of the buttons a user presses while handlers take time
DispatchEvents ==
    {"start", "file", "create", "confirm_creation", "confirm_extraction", "clear_files"}

Update(u, e) == [user |-> u, event |-> e]

\* every update is handed to its handler at once, finished or not
CanDispatch_Concurrent(r) == TRUE

\* Application.builder().token(...).build(): no concurrent_updates, and the
\* handlers are added blocking, so the next update waits for the handler of
\* the update before it
CanDispatch(r) == r = <<>>

\* the application takes the next update from its queue and calls its handler
dispatch(u, e) ==
    /\ CanDispatch(running)
    /\ Len(running) < MaxRunning
    /\ running' = Append(running, Update(u, e))
    /\ UNCHANGED <<user_sessions, disk, prompt, last>>

Without(r, i) == [k \in 1 .. Len(r) - 1 |-> IF k < i THEN r[k] ELSE r[k + 1]]

\* the handler of a dispatched update does its work and returns
complete(i) ==
    /\ i \in DOMAIN running
    /\ running' = Without(running, i)
    /\ LET u == running[i].user
           e == running[i].event
       IN  \/ e = "start" /\ start(u)
           \/ /\ e = "file"
              /\ \E msg \in SharedMessages, download_ok \in BOOLEAN :
                    handle_file(u, msg, download_ok) /\ DiskBound(u, MaxDisk)
           \/ e = "create" /\ handle_create_archive(u, "zip")
           \/ /\ e = "confirm_creation"
              /\ \E codec_ok \in BOOLEAN, delivered \in BOOLEAN :
                    handle_confirm_creation(u, "zip", codec_ok, delivered)
                    /\ DiskBound(u, MaxDisk)
           \/ e = "confirm_extraction" /\ handle_confirm_extraction(u)
           \/ e = "clear_files" /\ handle_clear_files(u)

NextDispatch ==
    \/ \E u \in Users, e \in DispatchEvents : dispatch(u, e)
    \/ \E i \in 1 .. MaxRunning : complete(i)

SpecDispatch == Init /\ [][NextDispatch]_vars

----------------------------------------------------------------------------
(* Properties                                                              *)

\* a user's file list, pending operation and scratch directory in a session
\* map; a user without a session has no files and nothing pending
FilesOf(sessions, u) == IF u \in DOMAIN sessions THEN sessions[u].files ELSE <<>>

PendingOf(sessions, u) ==
    IF u \in DOMAIN sessions THEN sessions[u].waiting_confirmation ELSE NONE

TempDirOf(sessions, u) ==
    IF u \in DOMAIN sessions THEN sessions[u].temp_dir ELSE UserTempDir(u)

ScratchOf(d, u) == [p \in {q \in DOMAIN d : q.dir = UserTempDir(u)} |-> d[p]]

Handled(u, event) == last.user = u /\ last.event = event

\* C1: with every event handled to completion, no session ever holds more than
\* MAX_FILES_PER_USER files, whatever the sequence of /start, file, create,
\* confirm, extract-all, cancel and clear events.
C1_FileCap ==
    \A u \in DOMAIN user_sessions : Len(user_sessions[u].files) <= MAX_FILES_PER_USER

\* an extract-all has filled the session to the cap and left a member it
\* extracted out of the list
C1_Witness ==
    \E u \in DOMAIN user_sessions :
        /\ Handled(u, "confirm_extraction") /\ last.result = "extracted"
        /\ Len(user_sessions[u].files) = MAX_FILES_PER_USER
        /\ \E p \in DOMAIN disk :
              /\ p.dir = user_sessions[u].temp_dir /\ p.sub # ""
              /\ \A i \in 1..Len(user_sessions[u].files) : user_sessions[u].files[i].path # p

\* C2: a file received while the session holds MAX_FILES_PER_USER files is
\* refused as limit_exceeded, and the session (file list, pending operation)
\* and the disk stay exactly as they were.
C2_LimitRejects ==
    [][\A u \in Users :
          (/\ Len(FilesOf(user_sessions, u)) = MAX_FILES_PER_USER
           /\ last'.user = u /\ last'.event = "file")
          => /\ last'.result = "limit_exceeded"
             /\ user_sessions' = user_sessions
             /\ disk' = disk]_vars

C2_Witness ==
    \E u \in DOMAIN user_sessions :
        /\ Handled(u, "file") /\ last.result = "limit_exceeded"
        /\ Len(user_sessions[u].files) = MAX_FILES_PER_USER
        /\ user_sessions[u].waiting_confirmation # NONE

\* C3: below the file cap, a document declared with exactly MAX_FILE_SIZE bytes
\* passes the size check and, once downloaded, is appended as a record; one
\* declared with MAX_FILE_SIZE + 1 bytes is refused as size_exceeded with the
\* file list, the pending operation and the disk unchanged.
C3_SizeBoundary ==
    [][last'.event = "file"
       => \A u \in Users, msg \in Messages :
          (msg.kind = "document" /\ Len(FilesOf(user_sessions, u)) < MAX_FILES_PER_USER)
          => /\ (DeclaredSize(msg) = MAX_FILE_SIZE /\ handle_file(u, msg, TRUE))
                => /\ last'.result = "ok"
                   /\ Len(FilesOf(user_sessions', u)) = Len(FilesOf(user_sessions, u)) + 1
                   /\ SubSeq(FilesOf(user_sessions', u), 1, Len(FilesOf(user_sessions, u)))
                        = FilesOf(user_sessions, u)
                   /\ LET rec == FilesOf(user_sessions', u)[Len(FilesOf(user_sessions', u))]
                      IN  /\ rec.size = MAX_FILE_SIZE
                          /\ rec.path \in DOMAIN disk' \ DOMAIN disk
             /\ (DeclaredSize(msg) = MAX_FILE_SIZE + 1
                   /\ \E download_ok \in BOOLEAN : handle_file(u, msg, download_ok))
                => /\ last'.result = "size_exceeded"
                   /\ FilesOf(user_sessions', u) = FilesOf(user_sessions, u)
                   /\ PendingOf(user_sessions', u) = PendingOf(user_sessions, u)
                   /\ disk' = disk]_vars

\* a file of MAX_FILE_SIZE bytes is in the list and the next one was refused for
\* its size
C3_Witness ==
    \E u \in DOMAIN user_sessions :
        /\ Handled(u, "file") /\ last.result = "size_exceeded"
        /\ user_sessions[u].files # <<>>
        /\ user_sessions[u].files[Len(user_sessions[u].files)].size = MAX_FILE_SIZE

\* C4: every record of every session has size <= MAX_FILE_SIZE, whether it came
\* from a received file or from merging extracted archive members.
C4_RecordSizes ==
    \A u \in DOMAIN user_sessions :
        \A i \in 1..Len(user_sessions[u].files) :
            user_sessions[u].files[i].size <= MAX_FILE_SIZE

\* C5: a user's pending operation is set exactly when the user has an
\* unanswered confirmation prompt.
C5_PendingIffPrompt ==
    \A u \in Users : (PendingOf(user_sessions, u) # NONE) <=> (prompt[u] # NONE)

\* C6: once a confirm (of a creation or of extract-all) or a cancel has been
\* handled, the user's pending operation is NONE.
C6_ClearedAfterConfirmOrCancel ==
    \A u \in Users :
        (last.user = u /\ last.event \in {"confirm_creation", "confirm_extraction", "cancel"})
        => PendingOf(user_sessions, u) = NONE

\* the operation a confirmation keyboard asks about
PromptedOperation(keyboard) ==
    IF keyboard = "confirm_extract_all" THEN "extract_all"
    ELSE IF \E f \in FormatInputs : keyboard = "confirm_" \o f
         THEN "create_" \o (CHOOSE f \in FormatInputs : keyboard = "confirm_" \o f)
         ELSE NONE

\* C7: when an operation is pending and a new request (create_archive, or
\* extract_all with an extractable file) is accepted, the pending operation
\* afterwards is the new request.
C7_LastRequestWins ==
    [][\A u \in Users :
          (/\ PendingOf(user_sessions, u) # NONE
           /\ last'.user = u /\ last'.event \in {"create", "extract_all"}
           /\ last'.result = "confirm_prompt")
          => PendingOf(user_sessions', u) = PromptedOperation(prompt'[u])]_vars

\* C8: a cancel leaves the pending operation NONE whatever it was, and changes
\* neither the file list, nor the scratch directory path, nor any file on disk,
\* nor another user's session.
C8_CancelOnlyClearsPending ==
    [][\A u \in Users :
          (last'.user = u /\ last'.event = "cancel")
          => /\ PendingOf(user_sessions', u) = NONE
             /\ FilesOf(user_sessions', u) = FilesOf(user_sessions, u)
             /\ TempDirOf(user_sessions', u) = TempDirOf(user_sessions, u)
             /\ disk' = disk
             /\ \A v \in DOMAIN user_sessions \ {u} : user_sessions'[v] = user_sessions[v]]_vars

\* a cancel was handled for a user who holds files, on disk and in the list
C8_Witness ==
    \E u \in DOMAIN user_sessions :
        /\ Handled(u, "cancel")
        /\ user_sessions[u].waiting_confirmation = NONE
        /\ user_sessions[u].files # <<>>
        /\ \A i \in 1..Len(user_sessions[u].files) :
              user_sessions[u].files[i].path \in DOMAIN disk

\* C9: a create_archive request on an empty file list is refused, stages
\* nothing and writes nothing; a confirm of a creation handled while the list is
\* empty reports failure and writes no archive.
C9_EmptyListRefused ==
    [][\A u \in Users :
          (FilesOf(user_sessions, u) = <<>> /\ last'.user = u)
          => /\ last'.event = "create"
                => /\ last'.result = "no_files"
                   /\ PendingOf(user_sessions', u) = NONE
                   /\ disk' = disk
             /\ last'.event = "confirm_creation"
                => /\ last'.result = "failed"
                   /\ PendingOf(user_sessions', u) = PendingOf(user_sessions, u)
                   /\ FilesOf(user_sessions', u) = <<>>
                   /\ disk' = disk]_vars

\* a confirm was handled on an empty list (after /start, the old files still on
\* disk) and reported failure
C9_Witness ==
    \E u \in DOMAIN user_sessions :
        /\ Handled(u, "confirm_creation") /\ last.result = "failed"
        /\ user_sessions[u].files = <<>>
        /\ DOMAIN ScratchOf(disk, u) # {}

\* C10: when a confirmed creation succeeds and the archive is delivered, the
\* archive file is gone afterwards, the pending operation is NONE, and the file
\* list holds the same records in the same order, each still backed by its file.
C10_DeliveredKeepsSources ==
    [][\A u \in Users, f \in FormatInputs, codec_ok \in BOOLEAN :
          (handle_confirm_creation(u, f, codec_ok, TRUE) /\ last'.result = "delivered")
          => /\ Join(TempDirOf(user_sessions, u), "",
                     ArchiveName(u, Len(FilesOf(user_sessions, u)), f)) \notin DOMAIN disk'
             /\ PendingOf(user_sessions', u) = NONE
             /\ FilesOf(user_sessions', u) = FilesOf(user_sessions, u)
             /\ \A i \in 1..Len(FilesOf(user_sessions', u)) :
                   FilesOf(user_sessions', u)[i].path \in DOMAIN disk']_vars

\* the path create_archive gives the archive of a user's present file list
ArchivePathOf(sessions, u, format_type) ==
    Join(TempDirOf(sessions, u), "", ArchiveName(u, Len(FilesOf(sessions, u)), format_type))

\* every record of a file list is backed by a file of the recorded size
Backed(d, files) ==
    \A i \in 1..Len(files) : Exists(d, files[i].path) /\ d[files[i].path].size = files[i].size

\* C11: a confirmed creation that fails, for a format compile does not know or
\* for a codec failure, reports failure (the handler's own "failed" outcome, not
\* its exception branch) and leaves the session's file list as it was.
C11_FailedCreationKeepsFiles ==
    [][last'.event = "confirm_creation"
       => \A u \in Users, f \in ConfirmFormatInputs, codec_ok \in BOOLEAN, delivered \in BOOLEAN :
             (/\ (f \notin {"zip", "7z", "tar", "tar.gz"} \/ ~codec_ok)
              /\ handle_confirm_creation(u, f, codec_ok, delivered))
             => /\ last'.result = "failed"
                /\ FilesOf(user_sessions', u) = FilesOf(user_sessions, u)]_vars

\* a confirm has failed on a list that holds files, with the staged creation
\* still pending
C11_Witness ==
    \E u \in DOMAIN user_sessions :
        /\ Handled(u, "confirm_creation") /\ last.result = "failed"
        /\ user_sessions[u].files # <<>>
        /\ user_sessions[u].waiting_confirmation = "create_zip"

\* C12: when the confirm handler has finished and compile had written the
\* archive (the creation succeeded, delivered or not), the archive file is not
\* in the user's scratch directory any more.
C12_ArchiveNeverRetained ==
    [][\A u \in Users, f \in ConfirmFormatInputs, delivered \in BOOLEAN :
          (/\ handle_confirm_creation(u, f, TRUE, delivered)
           /\ last'.result \in {"delivered", "error"})
          => ArchivePathOf(user_sessions, u, f) \notin DOMAIN disk']_vars

\* C13: the archive that a confirm compiles in any state holds the session's
\* whole file list as it is then: for a list of n files with distinct base
\* names, n members, the i-th being the i-th file under the base name of its
\* path.
C13_ArchiveHoldsFileList ==
    \A u \in DOMAIN user_sessions, f \in SUPPORTED_ARCHIVE_FORMATS :
        LET files == user_sessions[u].files
            r == create_archive(user_sessions, disk, u, f, TRUE)
        IN  (/\ r.archive_path # NoPath
             /\ \A i, j \in 1..Len(files) : i # j => files[i].path.name # files[j].path.name)
            => LET members == r.disk[r.archive_path].members
               IN  /\ Len(members) = Len(files)
                   /\ \A i \in 1..Len(files) :
                         members[i] = Member(files[i].path.name, files[i].size)

\* the (name, size) pairs of a sequence of records
NamesAndSizes(records) ==
    {[name |-> records[i].name, size |-> records[i].size] : i \in 1..Len(records)}

\* C14: compiling a session's records to a zip archive and extracting that
\* archive into an empty directory gives records with the same names and the
\* same sizes as the originals.
C14_ZipRoundTrip ==
    \A u \in DOMAIN user_sessions :
        LET files == user_sessions[u].files
            r == create_archive(user_sessions, disk, u, "zip", TRUE)
        IN  r.archive_path # NoPath
            => \A o \in extract_archive(r.disk, r.archive_path,
                                        user_sessions[u].temp_dir, "extracted_roundtrip") :
                  NamesAndSizes(o.extracted_files) = NamesAndSizes(files)

\* format strings handed to compile_archive: the four it knows and others
CompileFormats == {"zip", "7z", "tar", "tar.gz", "rar", "tgz", "ZIP", ""}

\* C15: compile_archive answers True only for zip, 7z, tar and tar.gz, and then
\* only if the codec did not fail; for any other format string it answers False
\* and writes nothing.
C15_CompileFormats ==
    \A u \in DOMAIN user_sessions, f \in CompileFormats, codec_ok \in BOOLEAN :
        LET c == compile_archive(disk, user_sessions[u].files,
                                 ArchivePathOf(user_sessions, u, f), f, codec_ok)
        IN  /\ c.success => (f \in {"zip", "7z", "tar", "tar.gz"} /\ codec_ok)
            /\ f \notin {"zip", "7z", "tar", "tar.gz"} => (~c.success /\ c.disk = disk)

\* a confirm for a format compile does not know has failed on a list of files
\* and has left the scratch directory with the listed files only
C15_Witness ==
    \E u \in DOMAIN user_sessions :
        /\ Handled(u, "confirm_creation") /\ last.result = "failed"
        /\ user_sessions[u].files # <<>>
        /\ Backed(disk, user_sessions[u].files)
        /\ \A p \in UploadsOnDisk(disk, user_sessions[u].temp_dir) :
              \E i \in 1..Len(user_sessions[u].files) : user_sessions[u].files[i].path = p

\* stems that end in ".tar": the names create_archive gives a tar.gz archive
TarStems ==
    {ArchiveName(u, n, "tar.gz").stem : u \in Users, n \in 0..MAX_FILES_PER_USER}

\* a name ending, whatever its case, in .zip, .7z, .tar, .tar.gz, .tgz or .apk
ListedExtension(name) ==
    \/ LowerExt(name.ext) \in {".zip", ".7z", ".tar", ".tgz", ".apk"}
    \/ LowerExt(name.ext) = ".gz" /\ name.stem \in TarStems

\* C16: for a path whose name does not end in .zip, .7z, .tar, .tar.gz, .tgz or
\* .apk, extract_archive returns the empty list and writes nothing.
C16_ExtractRefusesOtherExtensions ==
    \A p \in DOMAIN disk :
        ~ListedExtension(p.name)
        => \A o \in extract_archive(disk, p, p.dir, "extracted_" \o p.name.stem) :
              o.extracted_files = <<>> /\ o.disk = disk

\* C17: the files of a session that extract_all selects are exactly the files
\* whose name ends, whatever its case, in .zip, .7z, .tar, .tar.gz, .tgz or .apk.
C17_SelectedExtensions ==
    \A u \in DOMAIN user_sessions :
        LET Listed(f) == ListedExtension(f.name)
        IN  ExtractableFiles(user_sessions[u].files) = SelectSeq(user_sessions[u].files, Listed)

\* a selected archive that a codec can unpack
Unpackable(d, archive_file) ==
    Exists(d, archive_file.path) /\ d[archive_file.path].kind = "archive"

\* the files in a sub-directory of a user's scratch directory
FilesIn(d, temp_dir, sub) == {p \in DOMAIN d : p.dir = temp_dir /\ p.sub = sub}

\* the records a step has appended to a user's file list
Appended(u) ==
    SubSeq(FilesOf(user_sessions', u), Len(FilesOf(user_sessions, u)) + 1,
           Len(FilesOf(user_sessions', u)))

\* C18: in a confirmed extract_all, a selected archive that cannot be unpacked
\* adds no record, every selected archive that can be unpacked is unpacked
\* (also one that comes after a failed one) and merged if the cap leaves room,
\* and the count reported is the number of records merged.
C18_PartialFailureTolerant ==
    [][\A u \in Users :
          (last'.user = u /\ last'.event = "confirm_extraction")
          => LET files == FilesOf(user_sessions, u)
                 sel == ExtractableFiles(files)
                 temp_dir == TempDirOf(user_sessions, u)
             IN  /\ SubSeq(FilesOf(user_sessions', u), 1, Len(files)) = files
                 /\ \A i \in 1..Len(sel) :
                       Unpackable(disk, sel[i])
                       => \A k \in 1..Len(disk[sel[i].path].members) :
                             Exists(disk', Join(temp_dir, ExtractDir(sel[i]),
                                                disk[sel[i].path].members[k].name))
                 /\ \A k \in 1..Len(Appended(u)) :
                       \E i \in 1..Len(sel) :
                           /\ Unpackable(disk, sel[i])
                           /\ Appended(u)[k].path.sub = ExtractDir(sel[i])
                 /\ ((\E i \in 1..Len(sel) :
                          Unpackable(disk, sel[i]) /\ disk[sel[i].path].members # <<>>)
                      /\ Len(files) < MAX_FILES_PER_USER)
                    => Appended(u) # <<>>
                 /\ last'.count = Len(Appended(u))]_vars

\* an extract-all has been confirmed on a list whose first archive cannot be
\* unpacked and whose second can, and has merged a file of the second
C18_Witness ==
    \E u \in DOMAIN user_sessions :
        LET files == user_sessions[u].files
        IN  /\ Handled(u, "confirm_extraction") /\ last.count = 1
            /\ Len(files) = 3
            /\ can_extract_archive(files[1].name) /\ ~Unpackable(disk, files[1])
            /\ can_extract_archive(files[2].name) /\ Unpackable(disk, files[2])
            /\ files[3].path.sub = ExtractDir(files[2])

Min(a, b) == IF a < b THEN a ELSE b

\* C19: a confirmed extract_all reports len(files) after minus len(files)
\* before; when one selected archive can be unpacked and its directory then
\* holds k files, a list of n files grows by min(k, MAX_FILES_PER_USER - n)
\* records, each a different file of that directory with its size on disk.
C19_MergeStopsAtCap ==
    [][\A u \in Users :
          (last'.user = u /\ last'.event = "confirm_extraction")
          => LET files == FilesOf(user_sessions, u)
                 n == Len(files)
                 sel == ExtractableFiles(files)
                 temp_dir == TempDirOf(user_sessions, u)
                 good == {i \in 1..Len(sel) : Unpackable(disk, sel[i])}
             IN  /\ last'.count = Len(FilesOf(user_sessions', u)) - n
                 /\ Len(FilesOf(user_sessions', u)) <= MAX_FILES_PER_USER
                 /\ Cardinality(good) = 1
                    => LET found == FilesIn(disk', temp_dir,
                                            ExtractDir(sel[CHOOSE i \in good : TRUE]))
                       IN  /\ Len(Appended(u)) = Min(Cardinality(found), MAX_FILES_PER_USER - n)
                           /\ \A k \in 1..Len(Appended(u)) :
                                 /\ Appended(u)[k].path \in found
                                 /\ Appended(u)[k].size = disk'[Appended(u)[k].path].size
                                 /\ \A j \in 1..Len(Appended(u)) :
                                       j # k => Appended(u)[j].path # Appended(u)[k].path]_vars

\* an extract-all has filled the list to the cap with fewer records than its
\* archive gave files
C19_Witness ==
    \E u \in DOMAIN user_sessions :
        LET files == user_sessions[u].files
        IN  /\ Handled(u, "confirm_extraction") /\ last.count = 1
            /\ Len(files) = MAX_FILES_PER_USER
            /\ files[Len(files)].path.sub # ""
            /\ Cardinality(FilesIn(disk, user_sessions[u].temp_dir,
                                    files[Len(files)].path.sub)) > 1

\* C20: in a confirmed extract_all every selected archive has a directory of
\* its own that holds no file before the extraction, and after it the files
\* there are exactly the members of that archive.
C20_FreshExtractDirectory ==
    [][\A u \in Users :
          (last'.user = u /\ last'.event = "confirm_extraction")
          => LET sel == ExtractableFiles(FilesOf(user_sessions, u))
                 temp_dir == TempDirOf(user_sessions, u)
             IN  \A i \in 1..Len(sel) :
                    /\ FilesIn(disk, temp_dir, ExtractDir(sel[i])) = {}
                    /\ \A j \in 1..Len(sel) : j # i => ExtractDir(sel[j]) # ExtractDir(sel[i])
                    /\ Unpackable(disk, sel[i])
                       => {p.name : p \in FilesIn(disk', temp_dir, ExtractDir(sel[i]))}
                            = {disk[sel[i].path].members[k].name :
                                  k \in 1..Len(disk[sel[i].path].members)}]_vars

\* C21: once /start has been handled the user has an empty file list, no
\* pending operation and a scratch directory that holds no file.
C21_StartWipesScratch ==
    \A u \in Users :
        Handled(u, "start")
        => /\ FilesOf(user_sessions, u) = <<>>
           /\ PendingOf(user_sessions, u) = NONE
           /\ DOMAIN ScratchOf(disk, u) = {}

\* C22: a clear leaves an empty file list, no pending operation and a scratch
\* directory without files, and a clear handled right after a clear of the same
\* user changes neither the session nor the disk.
C22_ClearIdempotent ==
    [][\A u \in Users :
          (last'.user = u /\ last'.event = "clear_files")
          => /\ last'.result = "cleared"
             /\ FilesOf(user_sessions', u) = <<>>
             /\ PendingOf(user_sessions', u) = NONE
             /\ DOMAIN ScratchOf(disk', u) = {}
             /\ (last.user = u /\ last.event = "clear_files")
                => (user_sessions' = user_sessions /\ disk' = disk)]_vars

\* a clear has been handled and the user, who has a session, holds nothing
C22_Witness ==
    \E u \in DOMAIN user_sessions :
        /\ Handled(u, "clear_files")
        /\ user_sessions[u] = NewSession(u)
        /\ DOMAIN ScratchOf(disk, u) = {}

\* the k-th name of the probe order: name, name_1, name_2, ... with the number
\* put before the extension of the original name
Probe(original_name, k) ==
    IF k = 0 THEN original_name
    ELSE Name(original_name.stem \o "_" \o ToString(k), original_name.ext)

\* the first name of the probe order that no file in temp_dir has
FirstFree(d, temp_dir, original_name) ==
    LET Free(k) == ~Exists(d, Join(temp_dir, "", Probe(original_name, k)))
    IN  Probe(original_name,
              CHOOSE k \in 0..Cardinality(DOMAIN d) :
                  Free(k) /\ \A j \in 0..(k - 1) : ~Free(j))

\* C23: a file that is received and stored gets the first free name in the
\* order name, name_1, name_2, ... of the name it was sent under, at a path
\* that held no file, and every file that was on disk is there as it was.
C23_FirstFreeName ==
    [][(last'.event = "file" /\ last'.result = "ok")
       => \A u \in Users, msg \in NameMessages :
             handle_file(u, msg, TRUE)
             => LET temp_dir == TempDirOf(user_sessions, u)
                    n == Len(FilesOf(user_sessions, u))
                    new == FilesOf(user_sessions', u)[n + 1]
                IN  /\ Len(FilesOf(user_sessions', u)) = n + 1
                    /\ new.name = FirstFree(disk, temp_dir, msg.file_name)
                    /\ new.path = Join(temp_dir, "", new.name)
                    /\ new.path \notin DOMAIN disk
                    /\ disk'[new.path] = msg.content
                    /\ \A p \in DOMAIN disk : p \in DOMAIN disk' /\ disk'[p] = disk[p]]_vars

\* a.txt has been received three times: the records are a.txt, a_1.txt and
\* a_2.txt, each with the bytes that were sent for it
C23_Witness ==
    \E u \in DOMAIN user_sessions :
        LET files == user_sessions[u].files
        IN  /\ Handled(u, "file") /\ last.result = "ok"
            /\ Len(files) = 3
            /\ files[1].name = Name("a", ".txt")
            /\ files[2].name = Name("a_1", ".txt")
            /\ files[3].name = Name("a_2", ".txt")
            /\ Backed(disk, files)
            /\ files[1].size # files[2].size

Mutating == {"file", "confirm_creation", "confirm_extraction", "clear_files", "start"}

C26_SweepRemovesOldFiles == \A p \in Leftovers : <>(p \notin DOMAIN disk)

IsPrefix(s, t) == Len(s) <= Len(t) /\ \A i \in DOMAIN s : t[i] = s[i]

\* the events that start a session anew
Resetting == {"start", "clear_files"}

\* C27: a session, once made, stays in the map; the user of an event has a
\* session when the event has been handled, a new one if there was none and
\* the event is a button that only shows something; and an event other than
\* /start and clear leaves the directory of a session that exists and every
\* record of its file list in place.
C27_SessionHeld ==
    [][\A u \in Users :
          /\ u \in DOMAIN user_sessions => u \in DOMAIN user_sessions'
          /\ last'.user = u => u \in DOMAIN user_sessions'
          /\ (u \notin DOMAIN user_sessions /\ last'.user = u /\ last'.event = "query")
             => user_sessions'[u] = NewSession(u)
          /\ (u \in DOMAIN user_sessions /\ ~(last'.user = u /\ last'.event \in Resetting))
             => /\ user_sessions'[u].temp_dir = user_sessions[u].temp_dir
                /\ IsPrefix(user_sessions[u].files, user_sessions'[u].files)]_vars

\* a button that only shows something has been handled for a user whose
\* session holds two files and a staged creation
C27_Witness ==
    \E u \in DOMAIN user_sessions :
        /\ Handled(u, "query")
        /\ Len(user_sessions[u].files) >= 2
        /\ user_sessions[u].waiting_confirmation = "create_zip"

C29_RecordsBacked ==
    \A u \in DOMAIN user_sessions :
        \A i \in 1..Len(user_sessions[u].files) :
            Exists(disk, user_sessions[u].files[i].path)

\* C30: a confirm for format f that compiles an archive (delivered or not) is
\* handled while the pending operation is the creation with format f, and a
\* confirm that extracts files is handled while the pending operation is
\* extract_all.
C30_ConfirmNeedsStagedOperation ==
    [][(last'.event \in {"confirm_creation", "confirm_extraction"})
       => \A u \in Users :
             /\ \A f \in ConfirmFormatInputs, codec_ok \in BOOLEAN, delivered \in BOOLEAN :
                   (/\ handle_confirm_creation(u, f, codec_ok, delivered)
                    /\ last'.result \in {"delivered", "error"})
                   => PendingOf(user_sessions, u) = "create_" \o f
             /\ (handle_confirm_extraction(u) /\ last'.result = "extracted")
                => PendingOf(user_sessions, u) = "extract_all"]_vars

\* C31: in every reachable state the records of one session have pairwise
\* distinct paths.
C31_DistinctPaths ==
    \A u \in DOMAIN user_sessions :
        \A i, j \in 1..Len(user_sessions[u].files) :
            i # j => user_sessions[u].files[i].path # user_sessions[u].files[j].path

\* C32: an event other than /start and clear leaves every record of a file
\* list (name, path, size) at its place in the list, so that the list only
\* grows at its end; after an extraction the archives it extracted are still
\* in the list.
C32_AppendOnly ==
    [][\A u \in DOMAIN user_sessions :
          ~(last'.user = u /\ last'.event \in Resetting)
          => /\ u \in DOMAIN user_sessions'
             /\ Len(user_sessions[u].files) <= Len(user_sessions'[u].files)
             /\ SubSeq(user_sessions'[u].files, 1, Len(user_sessions[u].files))
                   = user_sessions[u].files]_vars

\* an extraction has appended a record behind the archive it came from
C32_Witness ==
    \E u \in DOMAIN user_sessions :
        LET files == user_sessions[u].files
        IN  /\ Handled(u, "confirm_extraction")
            /\ last.result = "extracted"
            /\ Len(files) >= 2
            /\ can_extract_archive(files[1].name)
            /\ files[Len(files)].path.sub # ""

\* C33: each of the buttons that only show something (list_files,
\* list_extractable, show_archive_options, show_extract_options, show_help,
\* back_to_main), pressed by a user who has a session, leaves the session's
\* file list, pending operation and directory, and the files in the user's
\* scratch directory, as they were.
C33_QueriesChangeNothing ==
    [][\A u \in DOMAIN user_sessions :
          (last'.user = u /\ last'.event = "query")
          => /\ u \in DOMAIN user_sessions'
             /\ user_sessions'[u].files = user_sessions[u].files
             /\ user_sessions'[u].waiting_confirmation = user_sessions[u].waiting_confirmation
             /\ user_sessions'[u].temp_dir = user_sessions[u].temp_dir
             /\ ScratchOf(disk', u) = ScratchOf(disk, u)]_vars

\* a button that only shows something has been handled for a user with a
\* file on disk, its record in the list and a staged creation
C33_Witness ==
    \E u \in DOMAIN user_sessions :
        /\ Handled(u, "query")
        /\ user_sessions[u].files # <<>>
        /\ user_sessions[u].waiting_confirmation = "create_zip"
        /\ DOMAIN ScratchOf(disk, u) # {}

====
